---- MODULE Spec2Model ----
(***************************************************************************)
(* Model of the stock scraper of src/main2.py: the retrying HTTP request   *)
(* (safe_request), the browser driver factory (get_safe_driver), the rate  *)
(* limiting wrapper (rate_limit), the five source extractors, the per      *)
(* symbol aggregation (save_stock_data) and the batch loop (batch_scrape). *)
(*                                                                         *)
(* Three specifications share the module:                                  *)
(*   SpecRequest  safe_request called directly with any max_retries        *)
(*   SpecSource   one wrapped extractor call at a time, step by step       *)
(*   Spec         batch_scrape over a list of symbols                      *)
(***************************************************************************)
EXTENDS Integers, Sequences, FiniteSets, TLC

\* ------------------------------------------------------------------------
\* Bounds of the model
\* ------------------------------------------------------------------------
\* largest max_retries a direct caller of safe_request passes
MaxRetries == 4
\* browsers that may be open at once before the model stops creating more
MaxOpen == 2
\* data rows of the company highlights table
MaxRows == 2
\* longest list of symbols handed to batch_scrape
MaxSymbols == 3
\* failures (of a source, of the snapshot write) injected in one batch
MaxFaults == 5

\* ------------------------------------------------------------------------
\* Program constants
\* ------------------------------------------------------------------------
\* safe_request(..., max_retries=3, ...)
DefaultRetries == 3
\* get_safe_driver(headless=True, max_retries=3)
DriverRetries == 3
\* @rate_limit(delay=2) on fetch_factsheet_selenium
FactsheetDelay == 2
\* @rate_limit(delay=1) on the four HTTP extractors
ApiDelay == 1
\* if len(cols) >= 9
HighlightCols == 9
\* batch_scrape(symbols, delay=3)
BatchDelay == 3

VARIABLES
    \* ---- safe_request
    caller,        \* who is running safe_request: "none", "direct" or a source
    max_retries,   \* safe_request's parameter
    attempt,       \* the loop variable of safe_request
    rq_pc,         \* "idle", "for", "except", "done"
    response,      \* safe_request's return value: "pending", "response", "None"
    attempts,      \* number of requests.get calls issued by the current call
    waits,         \* the time.sleep durations of the current call, in order
    outcomes,      \* what each attempt of the current call ended in, in order
    \* ---- one wrapped extractor call
    src,           \* the source whose extractor runs, "none" when none does
    symbol,        \* its argument
    x_pc,          \* position in the wrapper / extractor
    throttle,      \* seconds the rate_limit wrapper has slept in this call
    ret,           \* the value the call returned
    driver,        \* fetch_factsheet_selenium's local: "None", "driver", "quit"
    d_attempt,     \* the loop variable of get_safe_driver
    open_drivers,  \* browsers created and not yet quit
    loads,         \* driver.get calls of this call
    reloads,       \* driver.refresh calls of this call
    settles,       \* time.sleep(5) settle waits of this call
    looks,         \* how driver.page_source looks: "none", "complete", "short", "not_found"
    content,       \* what the extractor parsed in this call
    \* ---- save_stock_data
    s_pc,          \* "idle", "fetch", "persist", "returned"
    s_k,             \* index in SourceOrder of the next extractor to call
    data,          \* the dict being built
    result,        \* the value save_stock_data returned
    store,         \* the symbols whose snapshot data/<symbol>.json is written
    \* ---- batch_scrape
    symbols,       \* its argument
    b_i,             \* the loop counter of enumerate(symbols, 1)
    b_pc,          \* "loop", "call", "sleep", "done"
    results,       \* the dict symbol -> record
    result_keys,   \* the keys of results in insertion order
    failed_symbols,\* the list of failed symbols
    pauses,        \* the inter-symbol time.sleep durations, in order
    faults         \* failures the environment has injected in this run

rqVars == <<caller, max_retries, attempt, rq_pc, response, attempts, waits, outcomes>>

srcVars == <<src, symbol, x_pc, throttle, ret, driver, d_attempt, open_drivers,
             loads, reloads, settles, looks, content>>

batchVars == <<s_pc, s_k, data, result, store, symbols, b_i, b_pc, results,
               result_keys, failed_symbols, pauses, faults>>

vars == <<rqVars, srcVars, batchVars>>

\* ------------------------------------------------------------------------
\* safe_request
\* ------------------------------------------------------------------------
\* What one requests.get + raise_for_status can end in.  Everything but "ok"
\* is raised as a subclass of requests.exceptions.RequestException:
\* ConnectionError, Timeout, HTTPError (raise_for_status on 5xx and on 4xx),
\* MissingSchema / InvalidURL.
TransientErrors == {"conn_error", "timeout", "http_5xx"}
PermanentErrors == {"http_4xx", "bad_url"}
AttemptOutcomes == {"ok"} \cup TransientErrors \cup PermanentErrors

\* except requests.exceptions.RequestException as e
RequestException(o) == o \in TransientErrors \cup PermanentErrors

\* RetryAgain with the bound one too small
RetryAgainShort(a, n) == a < n - 2

\* if attempt < max_retries - 1
RetryAgain(a, n) == a < n - 1

\* wait_time growing by one second per attempt
wait_timeLinear(a) == a + 1

\* wait_time = 2 ** attempt
wait_time(a) == 2 ^ a

\* InRange with one value more, range(max_retries + 1)
InRangeInclusive(a, n) == a <= n

\* for attempt in range(max_retries): attempt is a value of the range
InRange(a, n) == a < n

\* the call itself: arguments bound, the for loop about to start
RqEnter(who, n) ==
    /\ caller' = who
    /\ max_retries' = n
    /\ attempt' = 0
    /\ rq_pc' = "for"
    /\ response' = "pending"
    /\ attempts' = 0
    /\ waits' = << >>
    /\ outcomes' = << >>

\* no call of safe_request is in progress
RqLeave ==
    /\ caller' = "none"
    /\ max_retries' = DefaultRetries
    /\ attempt' = 0
    /\ rq_pc' = "idle"
    /\ response' = "pending"
    /\ attempts' = 0
    /\ waits' = << >>
    /\ outcomes' = << >>

\* one pass of the try block: requests.get, raise_for_status, return response
\* or enter the except clause
RqAttempt ==
    /\ rq_pc = "for"
    /\ InRange(attempt, max_retries)
    /\ \E o \in AttemptOutcomes :
        /\ attempts' = attempts + 1
        /\ outcomes' = Append(outcomes, o)
        /\ IF RequestException(o)
             THEN /\ rq_pc' = "except"
                  /\ response' = response
             ELSE /\ rq_pc' = "done"
                  /\ response' = "response"
    /\ UNCHANGED <<caller, max_retries, attempt, waits>>
    /\ UNCHANGED srcVars
    /\ UNCHANGED batchVars

\* except clause, first branch: sleep 2 ** attempt and go round the loop
RqBackoff ==
    /\ rq_pc = "except"
    /\ RetryAgain(attempt, max_retries)
    /\ waits' = Append(waits, wait_time(attempt))
    /\ attempt' = attempt + 1
    /\ rq_pc' = "for"
    /\ UNCHANGED <<caller, max_retries, response, attempts, outcomes>>
    /\ UNCHANGED srcVars
    /\ UNCHANGED batchVars

\* except clause, else branch: return None
RqGiveUp ==
    /\ rq_pc = "except"
    /\ ~RetryAgain(attempt, max_retries)
    /\ response' = "None"
    /\ rq_pc' = "done"
    /\ UNCHANGED <<caller, max_retries, attempt, attempts, waits, outcomes>>
    /\ UNCHANGED srcVars
    /\ UNCHANGED batchVars

\* range(max_retries) is empty: the function body ends, Python returns None
RqFallThrough ==
    /\ rq_pc = "for"
    /\ ~InRange(attempt, max_retries)
    /\ response' = "None"
    /\ rq_pc' = "done"
    /\ UNCHANGED <<caller, max_retries, attempt, attempts, waits, outcomes>>
    /\ UNCHANGED srcVars
    /\ UNCHANGED batchVars

\* ------------------------------------------------------------------------
\* Text and numbers.  A text is a sequence of one-character strings.
\* ------------------------------------------------------------------------
\* Python's None
None == << >>
\* the ValueError float() and int() raise
ValueError == <<"ValueError">>
IsValueError(v) == Len(v) = 1

Digit == {"0", "1", "2", "3", "4", "5", "6", "7", "8", "9"}

DigitVal ==
    ("0" :> 0) @@ ("1" :> 1) @@ ("2" :> 2) @@ ("3" :> 3) @@ ("4" :> 4) @@
    ("5" :> 5) @@ ("6" :> 6) @@ ("7" :> 7) @@ ("8" :> 8) @@ ("9" :> 9)

\* str.replace(c, "")
Remove(s, c) == SelectSeq(s, LAMBDA x : x # c)

\* re.sub(r'[^\d.]', '', s)
KeepDigitsDot(s) == SelectSeq(s, LAMBDA x : x \in Digit \cup {"."})

Unsigned(s) == IF Len(s) > 0 /\ s[1] \in {"-", "+"} THEN Tail(s) ELSE s

Dots(s) == Cardinality({i \in 1 .. Len(s) : s[i] = "."})

\* the texts float() accepts: sign, digits, at most one point, a digit somewhere
IsFloatText(s) ==
    LET u == Unsigned(s)
    IN  /\ \A i \in 1 .. Len(u) : u[i] \in Digit \cup {"."}
        /\ Dots(u) <= 1
        /\ \E i \in 1 .. Len(u) : u[i] \in Digit

\* the texts int() accepts: sign, one digit or more
IsIntText(s) ==
    LET u == Unsigned(s)
    IN  /\ Len(u) > 0
        /\ \A i \in 1 .. Len(u) : u[i] \in Digit

RECURSIVE DigitsValue(_)
DigitsValue(d) ==
    IF d = << >> THEN 0
    ELSE 10 * DigitsValue(SubSeq(d, 1, Len(d) - 1)) + DigitVal[d[Len(d)]]

\* a number is <<m, f>>, standing for m / 10^f (f < 0 after a scaling), with no
\* trailing zero behind the point
RECURSIVE Num(_, _)
Num(m, f) == IF f > 0 /\ m % 10 = 0 THEN Num(m \div 10, f - 1) ELSE <<m, f>>

\* float(s)
py_float(s) ==
    IF ~IsFloatText(s) THEN ValueError
    ELSE LET u    == Unsigned(s)
             sign == IF Len(s) > 0 /\ s[1] = "-" THEN 0 - 1 ELSE 1
             dot  == IF Dots(u) = 0 THEN Len(u) + 1
                     ELSE CHOOSE i \in 1 .. Len(u) : u[i] = "."
             frac == IF Dots(u) = 0 THEN 0 ELSE Len(u) - dot
         IN  Num(sign * DigitsValue(Remove(u, ".")), frac)

\* int(s)
py_int(s) ==
    IF ~IsIntText(s) THEN ValueError
    ELSE LET sign == IF s[1] = "-" THEN 0 - 1 ELSE 1
         IN  Num(sign * DigitsValue(Unsigned(s)), 0)

\* x * 1e6 for a number x
Mega(x) == <<x[1], x[2] - 6>>

\* ------------------------------------------------------------------------
\* Sources, symbols and the records the extractors return
\* ------------------------------------------------------------------------
\* the keys save_stock_data fills, in the order it calls the extractors
SourceOrder ==
    <<"factsheet", "company_highlights", "rights_benefits",
      "financial_statements", "historical_trading">>

Sources == {SourceOrder[k] : k \in 1 .. Len(SourceOrder)}

Symbols == {"S1", "S2", "S3"}

\* delay with fetch_historical_prices left undecorated
delayUndecorated(s) ==
    IF s = "factsheet" THEN FactsheetDelay
    ELSE IF s = "historical_trading" THEN 0 ELSE ApiDelay

\* the delay argument of the rate_limit decorator on each extractor
delay(s) == IF s = "factsheet" THEN FactsheetDelay ELSE ApiDelay

\* no value yet / an exception left the function
Unset == [unset |-> TRUE]
Raised == [raised |-> TRUE]

\* the key under which an extractor returns its list, None when it has none
ListKey(s) ==
    CASE s = "rights_benefits"      -> <<"dividends">>
      [] s = "financial_statements" -> <<"financial_statements">>
      [] s = "historical_trading"   -> <<"historical_prices">>
      [] OTHER                      -> None

\* the error-tagged record of each extractor:
\*   {"symbol": symbol, "error": msg}                      factsheet, highlights
\*   {"symbol": symbol, "error": msg, "<list>": []}        the three others
ErrorRecord(s, sym, msg) ==
    IF ListKey(s) = None
    THEN ("symbol" :> sym) @@ ("error" :> msg)
    ELSE ("symbol" :> sym) @@ ("error" :> msg) @@ (ListKey(s)[1] :> << >>)

\* NoResponseRecord without the test of the response: the first use of the
\* None response raises out of the extractor
NoResponseRaises(s, sym) == Raised

\* if not response: return {... "error": "Failed to fetch ..."}
NoResponseRecord(s, sym) == ErrorRecord(s, sym, "Failed to fetch")

\* if not driver: return {"symbol": symbol, "error": "Failed to create driver"}
NoDriverRecord(sym) == ErrorRecord("factsheet", sym, "Failed to create driver")

\* except Exception as e: return {... "error": str(e)}
ExceptRecord(s, sym) == ErrorRecord(s, sym, "str(e)")

\* except json.JSONDecodeError: return {... "error": "Invalid JSON response"}
InvalidJsonRecord(s, sym) == ErrorRecord(s, sym, "Invalid JSON response")

HasError(r) == "error" \in DOMAIN r

\* ------------------------------------------------------------------------
\* fetch_company_highlights: the rows of the highlights table
\* ------------------------------------------------------------------------
HighlightKeys ==
    <<"year", "revenue", "net_profit", "eps", "bvps", "roe",
      "net_profit_margin", "pe", "pbv">>

\* cols = [td.get_text(strip=True).replace(",", "") for td in row.find_all("td")]
HlCols(row) == [i \in 1 .. Len(row) |-> Remove(row[i], ",")]

\* int(cols[0]) if cols[0] else None
HlYear(c) == IF c # << >> THEN py_int(c) ELSE None

\* float(cols[k]) if cols[k] and cols[k] != '-' else None
HlNumber(c) == IF c # << >> /\ c # <<"-">> THEN py_float(c) ELSE None

HlField(cols, k) == IF k = 1 THEN HlYear(cols[k]) ELSE HlNumber(cols[k])

\* building the item raises ValueError
HlRaises(cols) == \E k \in 1 .. HighlightCols : IsValueError(HlField(cols, k))

KeyIndex(key) == CHOOSE k \in 1 .. HighlightCols : HighlightKeys[k] = key

HlItem(cols) ==
    [key \in {HighlightKeys[k] : k \in 1 .. HighlightCols} |->
        HlField(cols, KeyIndex(key))]

\* what one row adds to data["highlights"]["financials"]:
\*   try: if len(cols) >= 9: append(item)   except (ValueError, IndexError): continue
HlRow(row) ==
    LET cols == HlCols(row)
    IN  IF Len(cols) >= HighlightCols /\ ~HlRaises(cols)
        THEN <<HlItem(cols)>>
        ELSE << >>

RECURSIVE HlFinancials(_)
HlFinancials(rows) ==
    IF rows = << >> THEN << >>
    ELSE HlRow(Head(rows)) \o HlFinancials(Tail(rows))

\* the record fetch_company_highlights returns for a parsed page
HighlightsRecord(sym, rows) ==
    ("symbol" :> sym) @@ ("highlights" :> [financials |-> HlFinancials(rows)])

\* ------------------------------------------------------------------------
\* fetch_factsheet_selenium: the fields of the page.  A tag is << >> when the
\* page has none and <<text>> when it has one.
\* ------------------------------------------------------------------------
\* data["company_name"] = company_name_tag.text.strip() if company_name_tag else None
FsCompanyName(tag) == IF tag # << >> THEN tag[1] ELSE None

\* price_text = re.sub(r'[^\d.]', '', price_tag.text)
\* data["price"] = float(price_text) if price_text else None; except: None
FsPrice(tag) ==
    IF tag = << >> THEN None
    ELSE LET price_text == KeepDigitsDot(tag[1])
         IN  IF price_text = << >> THEN None
             ELSE IF IsValueError(py_float(price_text)) THEN None
             ELSE py_float(price_text)

\* cap = div.find_next("div").text.strip().replace(",", "")
\* data["market_cap"] = float(cap) * 1e6; except: continue
FsMarketCap(tag) ==
    IF tag = << >> THEN None
    ELSE LET cap == Remove(tag[1], ",")
         IN  IF IsValueError(py_float(cap)) THEN None
             ELSE Mega(py_float(cap))

\* the record fetch_factsheet_selenium returns for a parsed page
FactsheetRecord(sym, page) ==
    ("symbol" :> sym) @@
    ("company_name" :> FsCompanyName(page.company_name)) @@
    ("price" :> FsPrice(page.price)) @@
    ("market_cap" :> FsMarketCap(page.market_cap)) @@
    ("factsheet_table" :> page.table)

\* fetch_rights_benefits: the dividend entries of a decoded payload
\*   for item in data.get("data", []): if item.get("rightsType") == "เงินปันผล": append
DividendEntry(item) ==
    [year |-> item.entitlementYear, amount_per_share |-> item.amount]

RECURSIVE Dividends(_)
Dividends(items) ==
    IF items = << >> THEN << >>
    ELSE (IF Head(items).rightsType = "dividend"
          THEN <<DividendEntry(Head(items))>> ELSE << >>)
         \o Dividends(Tail(items))

\* data.get(key, [])
GetList(obj, key) == IF key \in DOMAIN obj THEN obj[key] ELSE << >>

RightsRecord(sym, obj) ==
    ("symbol" :> sym) @@ ("dividends" :> Dividends(GetList(obj, "data")))

\* fetch_historical_prices: prices = data.get("price", [])
HistoricalRecord(sym, obj) ==
    ("symbol" :> sym) @@ ("historical_prices" :> GetList(obj, "price"))

\* ------------------------------------------------------------------------
\* fetch_financial_statements: the statement links of the page and the
\* metadata read off their file names
\* ------------------------------------------------------------------------
LowerCase ==
    <<"a", "b", "c", "d", "e", "f", "g", "h", "i", "j", "k", "l", "m">> \o
    <<"n", "o", "p", "q", "r", "s", "t", "u", "v", "w", "x", "y", "z">>

UpperCase ==
    <<"A", "B", "C", "D", "E", "F", "G", "H", "I", "J", "K", "L", "M">> \o
    <<"N", "O", "P", "Q", "R", "S", "T", "U", "V", "W", "X", "Y", "Z">>

\* the position of a letter in an alphabet, 0 for any other character
LetterIndex(c, abc) ==
    IF \E k \in 1 .. Len(abc) : abc[k] = c
    THEN CHOOSE k \in 1 .. Len(abc) : abc[k] = c
    ELSE 0

\* str.lower()
lower(s) ==
    [i \in 1 .. Len(s) |->
        IF LetterIndex(s[i], UpperCase) > 0
        THEN LowerCase[LetterIndex(s[i], UpperCase)] ELSE s[i]]

\* str.upper()
upper(s) ==
    [i \in 1 .. Len(s) |->
        IF LetterIndex(s[i], LowerCase) > 0
        THEN UpperCase[LetterIndex(s[i], LowerCase)] ELSE s[i]]

\* the text sub stands in s at position i
StartsAt(s, sub, i) ==
    /\ i >= 1
    /\ i + Len(sub) - 1 <= Len(s)
    /\ SubSeq(s, i, i + Len(sub) - 1) = sub

\* sub in s
Contains(s, sub) == \E i \in 1 .. Len(s) : StartsAt(s, sub, i)

\* s.startswith(p)
startswith(s, p) == StartsAt(s, p, 1)

\* the match of a pattern ending in $
endswith(s, p) == StartsAt(s, p, Len(s) - Len(p) + 1)

\* s.split(c)[-1]
LastPart(s, c) ==
    LET at == {i \in 1 .. Len(s) : s[i] = c}
    IN  IF at = {} THEN s
        ELSE SubSeq(s, (CHOOSE i \in at : \A j \in at : j <= i) + 1, Len(s))

\* re.search(r"\.(pdf|xls|xlsx)$", href, re.IGNORECASE)
IsStatementFile(href) ==
    \E e \in {<<".", "p", "d", "f">>, <<".", "x", "l", "s">>, <<".", "x", "l", "s", "x">>} :
        endswith(lower(href), e)

\* the ticker each symbol of the model stands for
SymbolText(sym) ==
    CASE sym = "S1" -> <<"A", "B", "C">>
      [] sym = "S2" -> <<"B", "A", "Y">>
      [] sym = "S3" -> <<"T", "H", "A", "I">>

\* symbol.lower() in href.lower()
MentionsSymbol(sym, href) == Contains(lower(href), lower(SymbolText(sym)))

\* file_url = href if href.startswith("http") else "https://www.set.or.th" + href
FileUrl(href) ==
    IF startswith(href, <<"h", "t", "t", "p">>) THEN href
    ELSE <<"h", "t", "t", "p", "s", ":", "/", "/", "w", "w", "w", ".", "s", "e", "t", ".", "o", "r", ".", "t", "h">> \o href

\* file_name = file_url.split("/")[-1].lower()
FileName(file_url) == lower(LastPart(file_url, "/"))

\* the pattern 20\d{2} matches at position i
YearAt(name, i) ==
    /\ StartsAt(name, <<"2", "0">>, i)
    /\ i + 3 <= Len(name)
    /\ name[i + 2] \in Digit
    /\ name[i + 3] \in Digit

\* year_match = re.search(r"(20\d{2})", file_name): the leftmost match
\* year_match.group(1) if year_match else None
year_match(name) ==
    IF \E i \in 1 .. Len(name) : YearAt(name, i)
    THEN LET i == CHOOSE i \in 1 .. Len(name) :
                      YearAt(name, i) /\ \A j \in 1 .. i - 1 : ~YearAt(name, j)
         IN  SubSeq(name, i, i + 3)
    ELSE None

\* the pattern q[1-4]|y(?:early)? matches at position i
PeriodAt(name, i) ==
    \/ name[i] = "q" /\ i + 1 <= Len(name) /\ name[i + 1] \in {"1", "2", "3", "4"}
    \/ name[i] = "y"

\* period_match = re.search(r"q[1-4]|y(?:early)?", file_name): the leftmost
\* match, the optional group taken when it can be
period_match(name) ==
    IF \E i \in 1 .. Len(name) : PeriodAt(name, i)
    THEN LET i == CHOOSE i \in 1 .. Len(name) :
                      PeriodAt(name, i) /\ \A j \in 1 .. i - 1 : ~PeriodAt(name, j)
         IN  IF name[i] = "q" THEN SubSeq(name, i, i + 1)
             ELSE IF StartsAt(name, <<"y", "e", "a", "r", "l", "y">>, i) THEN <<"y", "e", "a", "r", "l", "y">>
             ELSE <<"y">>
    ELSE None

\* period_match.group(0).upper() if period_match else "UNKNOWN"
Period(name) ==
    IF period_match(name) = None THEN <<"U", "N", "K", "N", "O", "W", "N">>
    ELSE upper(period_match(name))

\* "th" if "th" in file_name else "en" if "en" in file_name else "unknown"
Language(name) ==
    IF Contains(name, <<"t", "h">>) THEN <<"t", "h">>
    ELSE IF Contains(name, <<"e", "n">>) THEN <<"e", "n">>
    ELSE <<"u", "n", "k", "n", "o", "w", "n">>

\* file_url.split(".")[-1].upper()
FileType(file_url) == upper(LastPart(file_url, "."))

\* the dict appended to file_links for one link
StatementEntry(href) ==
    LET file_url  == FileUrl(href)
        file_name == FileName(file_url)
    IN  [url      |-> file_url,
         year     |-> year_match(file_name),
         period   |-> Period(file_name),
         language |-> Language(file_name),
         type     |-> FileType(file_url)]

\* for link in soup.find_all("a", href=True): the entries of the links that
\* end in a statement extension and mention the symbol
RECURSIVE StatementLinks(_, _)
StatementLinks(sym, links) ==
    IF links = << >> THEN << >>
    ELSE (IF IsStatementFile(Head(links)) /\ MentionsSymbol(sym, Head(links))
          THEN <<StatementEntry(Head(links))>> ELSE << >>)
         \o StatementLinks(sym, Tail(links))

\* fetch_financial_statements: return {"symbol": symbol, "financial_statements": file_links}
StatementsRecord(sym, links) ==
    ("symbol" :> sym) @@ ("financial_statements" :> StatementLinks(sym, links))

\* ------------------------------------------------------------------------
\* What the upstream service can send (the inputs of the extractors)
\* ------------------------------------------------------------------------
T_year     == <<"2", "0", "2", "3">>
T_number   == <<"1", "2", ".", "5">>
T_thousand == <<"1", ",", "2", "3", "4", ".", "5", "0">>
T_percent  == <<"1", ",", "2", "3", "4", ".", "5", "0", "%">>
T_dash     == <<"-">>
T_empty    == << >>
T_text     == <<"N", "/", "A">>
T_negative == <<"-", "3">>
T_name     == <<"A", "B", "C">>

CellTexts ==
    {T_year, T_number, T_thousand, T_percent, T_dash, T_empty, T_text, T_negative}

\* a row whose nine cells all parse
GoodRow ==
    <<T_year, T_number, T_number, T_number, T_number,
      T_number, T_number, T_number, T_number>>

\* a good row with one cell replaced, or with its last cell missing
HlRows ==
    {[GoodRow EXCEPT ![p] = t] : p \in 1 .. HighlightCols, t \in CellTexts}
    \cup {SubSeq(GoodRow, 1, HighlightCols - 1)}

\* up to MaxRows rows, at most one of them not the good row
HlTables ==
    {<< >>} \cup
    UNION {{[i \in 1 .. n |-> IF i = p THEN r ELSE GoodRow] :
               p \in 1 .. n, r \in HlRows} : n \in 1 .. MaxRows}

Tags == {<< >>} \cup {<<t>> : t \in CellTexts}

FsPages ==
    [company_name : {<< >>, <<T_name>>}, price : Tags, market_cap : Tags,
     table : {<< >>}]

PageLooks == {"complete", "short", "not_found"}

RightItems ==
    {[rightsType |-> t, entitlementYear |-> "2023", amount |-> "1.50"] :
        t \in {"dividend", "other"}}

RightsPayloads ==
    {[json |-> "invalid"], [json |-> "ok"]} \cup
    {[json |-> "ok", data |-> d] :
        d \in {<< >>} \cup {<<a>> : a \in RightItems}
                      \cup {<<a, b>> : a \in RightItems, b \in RightItems}}

PricePayloads ==
    {[json |-> "invalid"], [json |-> "ok"],
     [json |-> "ok", price |-> << >>], [json |-> "ok", price |-> <<"p1", "p2">>]}

\* the hrefs of the statement page
H_quarter  == <<"/", "f", "/", "a", "b", "c", "_", "2", "0", "2", "3", "_", "q", "2", "_", "e", "n", ".", "p", "d", "f">>
H_yearly   == <<"/", "f", "/", "a", "b", "c", "_", "y", "e", "a", "r", "l", "y", "_", "t", "h", ".", "x", "l", "s", "x">>
H_upper    == <<"/", "f", "/", "A", "B", "C", "_", "2", "0", "2", "2", "_", "Q", "4", "_", "T", "H", ".", "P", "D", "F">>
H_bare     == <<"h", "t", "t", "p", ":", "/", "/", "x", "/", "a", "b", "c", ".", "x", "l", "s">>
H_y        == <<"/", "f", "/", "a", "b", "c", "_", "2", "0", "2", "1", "_", "y", "_", "e", "n", ".", "p", "d", "f">>
H_bay      == <<"/", "f", "/", "b", "a", "y", "_", "2", "0", "2", "3", "_", "q", "2", "_", "e", "n", ".", "p", "d", "f">>
H_thai     == <<"/", "f", "/", "t", "h", "a", "i", "_", "2", "0", "2", "3", "_", "q", "1", "_", "e", "n", ".", "p", "d", "f">>
H_other    == <<"/", "f", "/", "a", "b", "c", "_", "2", "0", "2", "3", "_", "q", "2", "_", "e", "n", ".", "d", "o", "c">>

Hrefs == {H_quarter, H_yearly, H_upper, H_bare, H_y, H_bay, H_thai, H_other}

\* a page with up to two links
StatementPages ==
    {[links |-> l] : l \in {<< >>} \cup {<<a>> : a \in Hrefs}
                              \cup {<<a, b>> : a \in Hrefs, b \in Hrefs}}

HighlightPages == {[rows |-> t] : t \in HlTables}

Payloads(s) ==
    CASE s = "company_highlights"   -> HighlightPages
      [] s = "rights_benefits"      -> RightsPayloads
      [] s = "financial_statements" -> StatementPages
      [] s = "historical_trading"   -> PricePayloads

\* the record an HTTP extractor returns once safe_request gave it a response
Extracted(s, sym, c) ==
    CASE s = "company_highlights"   -> HighlightsRecord(sym, c.rows)
      [] s = "rights_benefits"      ->
            IF c.json = "invalid" THEN InvalidJsonRecord(s, sym)
            ELSE RightsRecord(sym, c)
      [] s = "financial_statements" -> StatementsRecord(sym, c.links)
      [] s = "historical_trading"   ->
            IF c.json = "invalid" THEN InvalidJsonRecord(s, sym)
            ELSE HistoricalRecord(sym, c)

\* ------------------------------------------------------------------------
\* rate_limit: the wrapper around every extractor
\* ------------------------------------------------------------------------
SrcIdle ==
    /\ src = "none"
    /\ symbol = "none"
    /\ x_pc = "idle"
    /\ throttle = 0
    /\ ret = Unset
    /\ driver = "None"
    /\ d_attempt = 0
    /\ loads = 0
    /\ reloads = 0
    /\ settles = 0
    /\ looks = "none"
    /\ content = Unset

\* no batch is running
BatchIdle ==
    /\ s_pc = "idle"
    /\ s_k = 1
    /\ data = Unset
    /\ result = Unset
    /\ store = {}
    /\ symbols = << >>
    /\ b_i = 1
    /\ b_pc = "done"
    /\ results = << >>
    /\ result_keys = << >>
    /\ failed_symbols = << >>
    /\ pauses = << >>
    /\ faults = 0

\* fetch_x(symbol): the call enters wrapper(*args, **kwargs)
Call(s, sym) ==
    /\ x_pc \in {"idle", "returned"}
    /\ src' = s
    /\ symbol' = sym
    /\ x_pc' = "wrapper"
    /\ throttle' = 0
    /\ ret' = Unset
    /\ driver' = "None"
    /\ d_attempt' = 0
    /\ loads' = 0
    /\ reloads' = 0
    /\ settles' = 0
    /\ looks' = "none"
    /\ content' = Unset
    /\ UNCHANGED open_drivers
    /\ RqLeave

\* time.sleep(delay); return func(*args, **kwargs)
Throttle ==
    /\ x_pc = "wrapper"
    /\ throttle' = throttle + delay(src)
    /\ x_pc' = "body"
    /\ UNCHANGED <<src, symbol, ret, driver, d_attempt, open_drivers, loads,
                   reloads, settles, looks, content>>
    /\ UNCHANGED rqVars
    /\ UNCHANGED batchVars

\* ------------------------------------------------------------------------
\* get_safe_driver
\* ------------------------------------------------------------------------
\* driver = None; try: driver = get_safe_driver()
FsGetDriver ==
    /\ x_pc = "body"
    /\ src = "factsheet"
    /\ d_attempt' = 0
    /\ x_pc' = "get_driver"
    /\ UNCHANGED <<src, symbol, throttle, ret, driver, open_drivers, loads,
                   reloads, settles, looks, content>>
    /\ UNCHANGED rqVars
    /\ UNCHANGED batchVars

\* driver = webdriver.Chrome(options=options); return driver
DrvCreated ==
    /\ x_pc = "get_driver"
    /\ d_attempt < DriverRetries
    /\ open_drivers < MaxOpen
    /\ driver' = "driver"
    /\ open_drivers' = open_drivers + 1
    /\ x_pc' = "got_driver"
    /\ UNCHANGED <<src, symbol, throttle, ret, d_attempt, loads, reloads,
                   settles, looks, content>>
    /\ UNCHANGED rqVars
    /\ UNCHANGED batchVars

\* webdriver.Chrome raises WebDriverException
DrvFailed ==
    /\ x_pc = "get_driver"
    /\ d_attempt < DriverRetries
    /\ x_pc' = "drv_except"
    /\ UNCHANGED <<src, symbol, throttle, ret, driver, d_attempt, open_drivers,
                   loads, reloads, settles, looks, content>>
    /\ UNCHANGED rqVars
    /\ UNCHANGED batchVars

\* if attempt < max_retries - 1: time.sleep(2)
DrvRetry ==
    /\ x_pc = "drv_except"
    /\ d_attempt < DriverRetries - 1
    /\ d_attempt' = d_attempt + 1
    /\ x_pc' = "get_driver"
    /\ UNCHANGED <<src, symbol, throttle, ret, driver, open_drivers, loads,
                   reloads, settles, looks, content>>
    /\ UNCHANGED rqVars
    /\ UNCHANGED batchVars

\* else: return None
DrvGiveUp ==
    /\ x_pc = "drv_except"
    /\ ~(d_attempt < DriverRetries - 1)
    /\ driver' = "None"
    /\ x_pc' = "got_driver"
    /\ UNCHANGED <<src, symbol, throttle, ret, d_attempt, open_drivers, loads,
                   reloads, settles, looks, content>>
    /\ UNCHANGED rqVars
    /\ UNCHANGED batchVars

\* ------------------------------------------------------------------------
\* fetch_factsheet_selenium
\* ------------------------------------------------------------------------
\* if not driver: return {"symbol": symbol, "error": "Failed to create driver"}
FsNoDriver ==
    /\ x_pc = "got_driver"
    /\ driver = "None"
    /\ ret' = NoDriverRecord(symbol)
    /\ x_pc' = "finally"
    /\ UNCHANGED <<src, symbol, throttle, driver, d_attempt, open_drivers,
                   loads, reloads, settles, looks, content>>
    /\ UNCHANGED rqVars
    /\ UNCHANGED batchVars

\* driver.get(url); time.sleep(5)
FsLoad ==
    /\ x_pc = "got_driver"
    /\ driver # "None"
    /\ loads' = loads + 1
    /\ settles' = settles + 1
    /\ \E l \in PageLooks : looks' = l
    /\ x_pc' = "loaded"
    /\ UNCHANGED <<src, symbol, throttle, ret, driver, d_attempt, open_drivers,
                   reloads, content>>
    /\ UNCHANGED rqVars
    /\ UNCHANGED batchVars

\* Incomplete without the test of the not-found marker
IncompleteShortOnly(l) == l = "short"

\* if "ไม่พบข้อมูล" in driver.page_source or len(driver.page_source) < 1000
Incomplete(l) == l \in {"not_found", "short"}

\* the check of the page and, for an incomplete one, driver.refresh(); time.sleep(5)
FsCheck ==
    /\ x_pc = "loaded"
    /\ IF Incomplete(looks)
         THEN /\ reloads' = reloads + 1
              /\ settles' = settles + 1
              /\ \E l \in PageLooks : looks' = l
         ELSE UNCHANGED <<reloads, settles, looks>>
    /\ x_pc' = "checked"
    /\ UNCHANGED <<src, symbol, throttle, ret, driver, d_attempt, open_drivers,
                   loads, content>>
    /\ UNCHANGED rqVars
    /\ UNCHANGED batchVars

\* soup = BeautifulSoup(driver.page_source); the four field blocks; return data
FsExtract ==
    /\ x_pc = "checked"
    /\ \E page \in FsPages :
        /\ content' = page
        /\ ret' = FactsheetRecord(symbol, page)
    /\ x_pc' = "finally"
    /\ UNCHANGED <<src, symbol, throttle, driver, d_attempt, open_drivers,
                   loads, reloads, settles, looks>>
    /\ UNCHANGED rqVars
    /\ UNCHANGED batchVars

\* an exception inside the try block: webdriver.Chrome raising something that
\* is no WebDriverException, driver.get, driver.refresh or driver.page_source
\* raising, the debug file not being writable
FsRaise ==
    /\ src = "factsheet"
    /\ \/ x_pc = "get_driver" /\ d_attempt < DriverRetries
       \/ x_pc = "got_driver" /\ driver # "None"
       \/ x_pc = "loaded"
       \/ x_pc = "checked"
    /\ x_pc' = "except"
    /\ UNCHANGED <<src, symbol, throttle, ret, driver, d_attempt, open_drivers,
                   loads, reloads, settles, looks, content>>
    /\ UNCHANGED rqVars
    /\ UNCHANGED batchVars

\* except Exception as e: return {"symbol": symbol, "error": str(e)}
FsExcept ==
    /\ x_pc = "except"
    /\ src = "factsheet"
    /\ ret' = ExceptRecord(src, symbol)
    /\ x_pc' = "finally"
    /\ UNCHANGED <<src, symbol, throttle, driver, d_attempt, open_drivers,
                   loads, reloads, settles, looks, content>>
    /\ UNCHANGED rqVars
    /\ UNCHANGED batchVars

\* AfterFinally with driver.quit() at the end of the try block only
AfterFinallyOnSuccess(n, drv, r) ==
    IF drv # "None" /\ "error" \notin DOMAIN r THEN n - 1 ELSE n

\* finally: if driver: try: driver.quit() except: pass
\* the number of open browsers it leaves
AfterFinally(n, drv, r) == IF drv # "None" THEN n - 1 ELSE n

FsFinally ==
    /\ x_pc = "finally"
    /\ open_drivers' = AfterFinally(open_drivers, driver, ret)
    /\ driver' = IF open_drivers' < open_drivers THEN "quit" ELSE driver
    /\ x_pc' = "returned"
    /\ UNCHANGED <<src, symbol, throttle, ret, d_attempt, loads, reloads,
                   settles, looks, content>>
    /\ UNCHANGED rqVars
    /\ UNCHANGED batchVars

\* ------------------------------------------------------------------------
\* The four HTTP extractors: fetch_company_highlights, fetch_rights_benefits,
\* fetch_financial_statements, fetch_historical_prices
\* ------------------------------------------------------------------------
\* try: response = safe_request(url)
XRequest ==
    /\ x_pc = "body"
    /\ src # "factsheet"
    /\ RqEnter(src, DefaultRetries)
    /\ x_pc' = "request"
    /\ UNCHANGED <<src, symbol, throttle, ret, driver, d_attempt, open_drivers,
                   loads, reloads, settles, looks, content>>
    /\ UNCHANGED batchVars

\* if not response: return {"symbol": symbol, "error": "Failed to fetch ...", ...}
XNoResponse ==
    /\ x_pc = "request"
    /\ rq_pc = "done"
    /\ response = "None"
    /\ ret' = NoResponseRecord(src, symbol)
    /\ x_pc' = "returned"
    /\ UNCHANGED rqVars
    /\ UNCHANGED <<src, symbol, throttle, driver, d_attempt, open_drivers,
                   loads, reloads, settles, looks, content>>
    /\ UNCHANGED batchVars

\* the response is parsed and the record returned
XParse ==
    /\ x_pc = "request"
    /\ rq_pc = "done"
    /\ response = "response"
    /\ \E c \in Payloads(src) :
        /\ content' = c
        /\ ret' = Extracted(src, symbol, c)
    /\ x_pc' = "returned"
    /\ UNCHANGED rqVars
    /\ UNCHANGED <<src, symbol, throttle, driver, d_attempt, open_drivers,
                   loads, reloads, settles, looks>>
    /\ UNCHANGED batchVars

\* an exception inside the try block (safe_request raising something that is
\* no RequestException, the parser raising):
\* except Exception as e: return {"symbol": symbol, "error": str(e), ...}
XExcept ==
    /\ x_pc = "request"
    /\ rq_pc \in {"for", "done"}
    /\ response # "None"
    /\ ret' = ExceptRecord(src, symbol)
    /\ x_pc' = "returned"
    /\ UNCHANGED rqVars
    /\ UNCHANGED <<src, symbol, throttle, driver, d_attempt, open_drivers,
                   loads, reloads, settles, looks, content>>
    /\ UNCHANGED batchVars

\* ------------------------------------------------------------------------
\* SpecSource: wrapped extractor calls, one after the other
\* ------------------------------------------------------------------------
RqInit ==
    /\ caller = "none"
    /\ max_retries = DefaultRetries
    /\ attempt = 0
    /\ rq_pc = "idle"
    /\ response = "pending"
    /\ attempts = 0
    /\ waits = << >>
    /\ outcomes = << >>

InitSource == RqInit /\ SrcIdle /\ open_drivers = 0 /\ BatchIdle

CallSource ==
    /\ \E s \in Sources, sym \in Symbols : Call(s, sym)
    /\ UNCHANGED batchVars

NextSource ==
    \/ CallSource
    \/ Throttle
    \/ FsGetDriver
    \/ DrvCreated
    \/ DrvFailed
    \/ DrvRetry
    \/ DrvGiveUp
    \/ FsNoDriver
    \/ FsLoad
    \/ FsCheck
    \/ FsExtract
    \/ FsRaise
    \/ FsExcept
    \/ FsFinally
    \/ XRequest
    \/ RqAttempt
    \/ RqBackoff
    \/ RqGiveUp
    \/ XNoResponse
    \/ XParse
    \/ XExcept

SpecSource == InitSource /\ [][NextSource]_vars

\* ------------------------------------------------------------------------
\* SpecRequest: direct calls of safe_request
\* ------------------------------------------------------------------------
RetryArgs == (0 - 1) .. MaxRetries

InitRequest == RqInit /\ SrcIdle /\ open_drivers = 0 /\ BatchIdle

DirectCall ==
    /\ rq_pc \in {"idle", "done"}
    /\ \E n \in RetryArgs : RqEnter("direct", n)
    /\ UNCHANGED srcVars
    /\ UNCHANGED batchVars

NextRequest ==
    \/ DirectCall
    \/ RqAttempt
    \/ RqBackoff
    \/ RqGiveUp
    \/ RqFallThrough

SpecRequest == InitRequest /\ [][NextRequest]_vars

\* ------------------------------------------------------------------------
\* save_stock_data
\* ------------------------------------------------------------------------
GoodPage ==
    [company_name |-> <<T_name>>, price |-> <<T_number>>,
     market_cap |-> <<T_thousand>>, table |-> << >>]

\* the record of an extractor whose fetch and parse went well
OkRecord(s, sym) ==
    CASE s = "factsheet"            -> FactsheetRecord(sym, GoodPage)
      [] s = "company_highlights"   -> HighlightsRecord(sym, << >>)
      [] s = "rights_benefits"      -> RightsRecord(sym, [json |-> "ok"])
      [] s = "financial_statements" -> StatementsRecord(sym, << >>)
      [] s = "historical_trading"   -> HistoricalRecord(sym, [json |-> "ok"])

\* the record of an extractor whose transport step failed
FailRecord(s, sym) ==
    IF s = "factsheet" THEN NoDriverRecord(sym) ELSE NoResponseRecord(s, sym)

\* data = {"symbol": symbol, "timestamp": datetime.datetime.now().isoformat(), ...
NewData(sym) == ("symbol" :> sym) @@ ("timestamp" :> "now")

\* except Exception as e: return {"symbol": symbol, "error": f"Critical error: ..."}
CriticalRecord(sym) == ("symbol" :> sym) @@ ("error" :> "Critical error")

\* the five "<source>": fetch_x(symbol) entries of the dict literal, for the
\* set failing of the sources whose extractor returns its error record
Slots(sym, failing) ==
    [s \in Sources |-> IF s \in failing THEN FailRecord(s, sym) ELSE OkRecord(s, sym)]

\* Slots, tabulated
SlotTable == [sym \in Symbols |-> [failing \in SUBSET Sources |-> Slots(sym, failing)]]

\* the seconds the five rate_limit wrappers sleep
RECURSIVE Throttled(_)
Throttled(n) == IF n = 0 THEN 0 ELSE Throttled(n - 1) + delay(SourceOrder[n])

\* the dict literal is evaluated: the five wrapped extractors are called in
\* turn, each sleeps its delay and returns a record
SsFetch ==
    /\ s_pc = "fetch"
    /\ s_k <= Len(SourceOrder)
    /\ \E failing \in SUBSET Sources :
        /\ faults + Cardinality(failing) <= MaxFaults
        /\ faults' = faults + Cardinality(failing)
        /\ data' = SlotTable[data["symbol"]][failing] @@ data
        /\ ret' = data'[SourceOrder[Len(SourceOrder)]]
    /\ src' = SourceOrder[Len(SourceOrder)]
    /\ symbol' = data["symbol"]
    /\ throttle' = Throttled(Len(SourceOrder))
    /\ s_k' = Len(SourceOrder) + 1
    /\ x_pc' = "returned"
    /\ UNCHANGED <<driver, d_attempt, open_drivers, loads, reloads, settles,
                   looks, content>>
    /\ UNCHANGED rqVars
    /\ UNCHANGED <<s_pc, result, store, symbols, b_i, b_pc, results, result_keys,
                   failed_symbols, pauses>>

\* os.makedirs, open, json.dump succeed: return data
SsSaved ==
    /\ s_pc = "fetch"
    /\ s_k > Len(SourceOrder)
    /\ store' = store \cup {data["symbol"]}
    /\ result' = data
    /\ s_pc' = "returned"
    /\ UNCHANGED <<s_k, data, symbols, b_i, b_pc, results, result_keys,
                   failed_symbols, pauses, faults>>
    /\ UNCHANGED srcVars
    /\ UNCHANGED rqVars

\* os.makedirs or open raises: the except clause returns the critical record
SsCritical ==
    /\ s_pc = "fetch"
    /\ s_k > Len(SourceOrder)
    /\ faults < MaxFaults
    /\ faults' = faults + 1
    /\ result' = CriticalRecord(data["symbol"])
    /\ s_pc' = "returned"
    /\ UNCHANGED <<s_k, data, store, symbols, b_i, b_pc, results, result_keys,
                   failed_symbols, pauses>>
    /\ UNCHANGED srcVars
    /\ UNCHANGED rqVars

\* ------------------------------------------------------------------------
\* batch_scrape
\* ------------------------------------------------------------------------
\* results[symbol] = result: the keys of the dict in insertion order
WithKey(keys, sym) ==
    IF \E j \in 1 .. Len(keys) : keys[j] = sym THEN keys ELSE Append(keys, sym)

\* WithFailed with the symbol put in front of the list
WithFailedFirst(failed, sym, r) ==
    IF "error" \in DOMAIN r THEN <<sym>> \o failed ELSE failed

\* if "error" in result: failed_symbols.append(symbol)
WithFailed(failed, sym, r) == IF HasError(r) THEN Append(failed, sym) ELSE failed

\* NotLast without the test: a pause after every symbol
NotLastAlways(n, syms) == TRUE

\* if i < len(symbols)
NotLast(n, syms) == n < Len(syms)

\* for b_i, symbol in enumerate(symbols, 1): result = save_stock_data(symbol)
BatchCall ==
    /\ b_pc = "loop"
    /\ b_i <= Len(symbols)
    /\ b_pc' = "call"
    /\ s_pc' = "fetch"
    /\ s_k' = 1
    /\ data' = NewData(symbols[b_i])
    /\ result' = Unset
    /\ UNCHANGED <<store, symbols, b_i, results, result_keys, failed_symbols,
                   pauses, faults>>
    /\ UNCHANGED srcVars
    /\ UNCHANGED rqVars

\* results[symbol] = result; the check of "error" in result; the test b_i < len(symbols)
BatchRecord ==
    /\ b_pc = "call"
    /\ s_pc = "returned"
    /\ results' = (symbols[b_i] :> result) @@ results
    /\ result_keys' = WithKey(result_keys, symbols[b_i])
    /\ failed_symbols' = WithFailed(failed_symbols, symbols[b_i], result)
    /\ s_pc' = "idle"
    /\ IF NotLast(b_i, symbols)
         THEN b_pc' = "sleep" /\ b_i' = b_i
         ELSE b_pc' = "loop" /\ b_i' = b_i + 1
    /\ UNCHANGED <<s_k, data, result, store, symbols, pauses, faults>>
    /\ UNCHANGED srcVars
    /\ UNCHANGED rqVars

\* time.sleep(delay), then the next symbol
BatchPause ==
    /\ b_pc = "sleep"
    /\ pauses' = Append(pauses, BatchDelay)
    /\ b_i' = b_i + 1
    /\ b_pc' = "loop"
    /\ UNCHANGED <<s_pc, s_k, data, result, store, symbols, results, result_keys,
                   failed_symbols, faults>>
    /\ UNCHANGED srcVars
    /\ UNCHANGED rqVars

\* return results, failed_symbols
BatchReturn ==
    /\ b_pc = "loop"
    /\ b_i > Len(symbols)
    /\ b_pc' = "done"
    /\ UNCHANGED <<s_pc, s_k, data, result, store, symbols, b_i, results,
                   result_keys, failed_symbols, pauses, faults>>
    /\ UNCHANGED srcVars
    /\ UNCHANGED rqVars

\* ------------------------------------------------------------------------
\* Spec: one run of batch_scrape
\* ------------------------------------------------------------------------
SymbolOrder == <<"S1", "S2", "S3">>

Rank(sym) == CHOOSE j \in 1 .. Len(SymbolOrder) : SymbolOrder[j] = sym

\* Symbols are opaque to the code, so a list stands for all its renamings:
\* the symbols of a list appear for the first time in the order S1, S2, S3.
InputLists ==
    {l \in UNION {[1 .. n -> Symbols] : n \in 0 .. MaxSymbols} :
        \A j \in 1 .. Len(l) :
            Rank(l[j]) = 1 \/ \E h \in 1 .. j - 1 : Rank(l[h]) = Rank(l[j]) - 1}

Init ==
    /\ RqInit
    /\ SrcIdle
    /\ open_drivers = 0
    /\ s_pc = "idle"
    /\ s_k = 1
    /\ data = Unset
    /\ result = Unset
    /\ store = {}
    /\ symbols \in InputLists
    /\ b_i = 1
    /\ b_pc = "loop"
    /\ results = << >>
    /\ result_keys = << >>
    /\ failed_symbols = << >>
    /\ pauses = << >>
    /\ faults = 0

Next ==
    \/ BatchCall
    \/ SsFetch
    \/ SsSaved
    \/ SsCritical
    \/ BatchRecord
    \/ BatchPause
    \/ BatchReturn

Spec == Init /\ [][Next]_vars

\* ========================================================================
\* Properties of safe_request (SpecRequest)
\* ========================================================================
AllTransient == \A i \in 1 .. Len(outcomes) : outcomes[i] \in TransientErrors

\* C1 - Retry bound: a call with max_retries = N >= 1 whose every attempt ends
\* in a transient error has, when it returns, issued exactly N requests and
\* returns None.
RetryBound ==
    (rq_pc = "done" /\ max_retries >= 1 /\ AllTransient)
        => (attempts = max_retries /\ Len(outcomes) = max_retries
            /\ response = "None")

\* a call with max_retries >= 2 ran out of attempts on transient errors only
RetryBoundReached ==
    /\ rq_pc = "done"
    /\ max_retries >= 2
    /\ AllTransient
    /\ attempts = max_retries
    /\ response = "None"

\* C2 - No retry on permanent error: once the first attempt has ended in a 4xx
\* response or a malformed-URL error, the call makes no further attempt and no
\* backoff wait, and it returns None.
NoRetryOnPermanent ==
    (Len(outcomes) >= 1 /\ outcomes[1] \in PermanentErrors)
        => /\ attempts = 1
           /\ waits = << >>
           /\ rq_pc \in {"except", "done"}
           /\ rq_pc = "done" => response = "None"

\* ========================================================================
\* Properties of the extractors (SpecSource)
\* ========================================================================
\* C6 - Browser release: whenever no call of fetch_factsheet_selenium is in
\* progress, every browser that was created has been quit.
BrowserReleased ==
    x_pc \in {"idle", "returned"}
        => (open_drivers = 0 /\ driver \in {"None", "quit"})

\* a call that created a browser and then failed has returned with it quit
BrowserReleasedAfterFault ==
    /\ x_pc = "returned"
    /\ src = "factsheet"
    /\ HasError(ret)
    /\ driver = "quit"
    /\ loads = 1

\* an outbound call (a request of safe_request, a browser creation, a page
\* load) has been started in the current extractor call
OutboundStarted ==
    \/ rq_pc # "idle"
    \/ x_pc \in {"get_driver", "drv_except", "got_driver", "loaded", "checked",
                 "except", "finally"}
    \/ loads > 0

\* C7 - Rate-limit gate: an outbound call is made only inside an extractor
\* call whose wrapper has already slept that source's delay, 2 seconds for the
\* rendered factsheet page and 1 second for the four others.
RateLimitGate ==
    OutboundStarted
        => /\ src \in Sources
           /\ throttle = IF src = "factsheet" THEN FactsheetDelay ELSE ApiDelay
           /\ FactsheetDelay > ApiDelay

\* a request of an HTTP extractor is in flight after its 1 second delay
RateLimitGateReached ==
    /\ src = "historical_trading"
    /\ rq_pc = "except"
    /\ attempts = 2
    /\ throttle = ApiDelay

\* the transport step of the returned call failed
TransportFailed ==
    \/ src # "factsheet" /\ response = "None"
    \/ src = "factsheet" /\ driver = "None"
    \/ "json" \in DOMAIN content /\ content.json = "invalid"

\* the record carries nothing but the symbol, the error and an empty list
EmptyData(s, r) ==
    /\ DOMAIN r = {"symbol", "error"} \cup {ListKey(s)[i] : i \in 1 .. Len(ListKey(s))}
    /\ \A i \in 1 .. Len(ListKey(s)) : r[ListKey(s)[i]] = << >>

\* C9 - Extraction never raises: every extractor call returns a record for its
\* symbol, and when its transport step failed (no response after the retries,
\* no driver after the creation retries, undecodable JSON) the record carries
\* an error marker and empty data fields.
ExtractionNeverRaises ==
    x_pc = "returned"
        => /\ ret # Raised
           /\ ret # Unset
           /\ ret.symbol = symbol
           /\ TransportFailed => (HasError(ret) /\ EmptyData(src, ret))

\* an HTTP extractor returned after safe_request ran out of attempts
ExtractionAfterNoResponse ==
    /\ x_pc = "returned"
    /\ src = "rights_benefits"
    /\ response = "None"
    /\ attempts = DefaultRetries
    /\ HasError(ret)

\* the texts that stand for a missing or malformed value
BadTexts == {T_empty, T_dash, T_text}

\* the rows C10 speaks of: every cell present and well formed but one, which
\* is missing (the row is one cell short), empty, a dash or no number
OneBadCell(row) ==
    \/ row = SubSeq(GoodRow, 1, HighlightCols - 1)
    \/ /\ Len(row) = HighlightCols
       /\ Cardinality({k \in 1 .. HighlightCols : row[k] \in BadTexts}) = 1
       /\ \A k \in 1 .. HighlightCols : row[k] \notin BadTexts => row[k] = GoodRow[k]

\* the item C10 expects of such a row: null for the bad cell, the value of
\* every other cell
ExpectedItem(row) ==
    [key \in {HighlightKeys[k] : k \in 1 .. HighlightCols} |->
        LET k == KeyIndex(key)
        IN  IF k > Len(row) \/ row[k] \in BadTexts THEN None
            ELSE IF k = 1 THEN py_int(row[k]) ELSE py_float(row[k])]

\* the tags C10 speaks of: at most one of the three factsheet fields bad
BadTag(tag) == tag = << >> \/ tag[1] \in BadTexts

\* C10 - Partial tolerance: a successfully fetched content with one field
\* missing or malformed and the others present gives a record without error
\* marker in which that field is null and every other field is populated; no
\* row is dropped.
PartialTolerance ==
    /\ (x_pc = "returned" /\ src = "company_highlights" /\ "rows" \in DOMAIN content)
        => /\ ~HasError(ret)
           /\ \A i \in 1 .. Len(content.rows) :
                OneBadCell(content.rows[i])
                    => \E j \in 1 .. Len(ret.highlights.financials) :
                          ret.highlights.financials[j] = ExpectedItem(content.rows[i])
    /\ (x_pc = "returned" /\ src = "factsheet" /\ "price" \in DOMAIN content)
        => /\ ~HasError(ret)
           /\ (ret.company_name = None) = (content.company_name = << >>)
           /\ BadTag(content.price) => ret.price = None
           /\ BadTag(content.market_cap) => ret.market_cap = None
           /\ (content.price # << >> /\ content.price[1] = T_number)
                 => ret.price = py_float(T_number)
           /\ (content.market_cap # << >> /\ content.market_cap[1] = T_number)
                 => ret.market_cap = Mega(py_float(T_number))

\* ========================================================================
\* Properties of save_stock_data and batch_scrape (Spec)
\* ========================================================================
Range(q) == {q[j] : j \in 1 .. Len(q)}

\* every source of the record returned an error-tagged record
FailsEntirely(r) == \A s \in Sources : s \in DOMAIN r /\ HasError(r[s])

\* every source of the record returned a record without error marker
FullyFetched(r) == \A s \in Sources : s \in DOMAIN r /\ ~HasError(r[s])

\* C3 - Batch continuation: the returned mapping has a record for every
\* requested symbol, every symbol whose aggregation failed entirely is in
\* failed_symbols, and for [S1, S2, S3] with only S2 failing entirely the list
\* is exactly [S2].
BatchContinuation ==
    b_pc = "done"
        => /\ DOMAIN results = Range(symbols)
           /\ \A sym \in DOMAIN results :
                FailsEntirely(results[sym]) => sym \in Range(failed_symbols)
           /\ (/\ symbols = SymbolOrder
               /\ FullyFetched(results["S1"])
               /\ FailsEntirely(results["S2"])
               /\ FullyFetched(results["S3"]))
                 => failed_symbols = <<"S2">>

\* the sources whose slot of the dict carries an error marker
FailedSlots(d) == {s \in Sources : s \in DOMAIN d /\ HasError(d[s])}

\* the test batch_scrape applies to a record: if "error" in result
CountedFailed(r) == HasError(r)

\* C4 - Aggregation independence: when exactly one extractor returned an
\* error-tagged record, save_stock_data returns a record that holds all five
\* partial records as the extractors returned them, and the record does not
\* count as fully successful.
AggregationIndependence ==
    (s_pc = "returned" /\ Cardinality(FailedSlots(data)) = 1)
        => /\ \A s \in Sources : s \in DOMAIN result /\ result[s] = data[s]
           /\ CountedFailed(result)

\* C5 - Slot invariant: every record save_stock_data returns and every record
\* batch_scrape stores has a slot for each of the five sources.
SlotInvariant ==
    /\ s_pc = "returned" => Sources \subseteq DOMAIN result
    /\ \A sym \in DOMAIN results : Sources \subseteq DOMAIN results[sym]

\* the number of symbols whose record has been stored
Recorded == IF b_pc = "sleep" THEN b_i ELSE b_i - 1

RECURSIVE FirstOccurrences(_)
FirstOccurrences(q) ==
    IF q = << >> THEN << >>
    ELSE LET front == FirstOccurrences(SubSeq(q, 1, Len(q) - 1))
         IN  IF q[Len(q)] \in Range(front) THEN front ELSE Append(front, q[Len(q)])

RECURSIVE IsSubsequence(_, _)
IsSubsequence(f, q) ==
    IF f = << >> THEN TRUE
    ELSE IF q = << >> THEN FALSE
    ELSE IF Head(f) = Head(q) THEN IsSubsequence(Tail(f), Tail(q))
    ELSE IsSubsequence(f, Tail(q))

\* C8 - Batch order: the symbols are processed one at a time in input order,
\* the keys of results are the symbols processed so far in input order, and
\* failed_symbols is a subsequence of the symbols processed so far.
BatchOrder ==
    LET seen == SubSeq(symbols, 1, Recorded)
    IN  /\ result_keys = FirstOccurrences(seen)
        /\ DOMAIN results = Range(seen)
        /\ IsSubsequence(failed_symbols, seen)
        /\ b_pc = "call" => (Recorded = b_i - 1 /\ data["symbol"] = symbols[b_i])
        /\ s_pc # "idle" => b_pc = "call"

\* a batch of three symbols has returned with the first and the third failed
BatchOrderReached ==
    /\ b_pc = "done"
    /\ symbols = SymbolOrder
    /\ failed_symbols = <<"S1", "S3">>
    /\ result_keys = SymbolOrder


\* ========================================================================
\* Numeric coercion of the extractors (SpecSource)
\* ========================================================================
\* the cells the normalization is about: a number with thousands separators,
\* the same with a percent sign, the placeholder dash, the empty string
NormalTexts == {T_number, T_thousand, T_percent, T_dash, T_empty}

\* the value the normalization gives a cell: null for a placeholder, else the
\* number left once separators and percent signs are removed
Normalized(c) ==
    IF c \in {T_dash, T_empty} THEN None
    ELSE py_float(Remove(Remove(c, ","), "%"))

\* a full row with a year and eight cells the normalization is about
NormalRow(row) ==
    /\ Len(row) = HighlightCols
    /\ row[1] = T_year
    /\ \A k \in 2 .. HighlightCols : row[k] \in NormalTexts

NormalItem(row) ==
    [key \in {HighlightKeys[k] : k \in 1 .. HighlightCols} |->
        IF KeyIndex(key) = 1 THEN py_int(row[1])
        ELSE Normalized(row[KeyIndex(key)])]

\* C11 - Numeric normalization: a cell with thousands separators and a
\* percent sign is parsed to its number ("1,234.50%" gives 1234.5), a dash or
\* an empty cell gives null, and no such cell drops its row or raises; the
\* same holds of the text of the factsheet price.
NumericNormalization ==
    /\ Normalized(T_percent) = <<12345, 1>>
    /\ (x_pc = "returned" /\ src = "company_highlights" /\ "rows" \in DOMAIN content)
        => /\ ~HasError(ret)
           /\ \A i \in 1 .. Len(content.rows) :
                NormalRow(content.rows[i])
                    => \E j \in 1 .. Len(ret.highlights.financials) :
                          ret.highlights.financials[j] = NormalItem(content.rows[i])
    /\ (x_pc = "returned" /\ src = "factsheet" /\ "price" \in DOMAIN content
            /\ content.price # << >> /\ content.price[1] \in NormalTexts)
        => ret.price = Normalized(content.price[1])


\* ========================================================================
\* The page load of fetch_factsheet_selenium (SpecSource)
\* ========================================================================
\* the page source is shorter than 1000 characters or has the not-found marker
LooksIncomplete == looks \in {"short", "not_found"}

\* C13 - Reload at most once: a call loads the page once and reloads it at
\* most once, each followed by one settle wait; the reload happens exactly
\* when the page looks incomplete after the first settle wait, is not repeated
\* when the page still looks incomplete, and leaves the driver and the
\* attempt counter of its creation alone.
ReloadAtMostOnce ==
    /\ [](loads <= 1 /\ reloads <= loads /\ settles = loads + reloads)
    /\ [][reloads' > reloads
            => /\ x_pc = "loaded"
               /\ LooksIncomplete
               /\ reloads = 0
               /\ settles' = settles + 1
               /\ loads' = loads
               /\ d_attempt' = d_attempt
               /\ driver' = driver
               /\ open_drivers' = open_drivers
               /\ attempts' = attempts]_vars
    /\ [][(x_pc = "loaded" /\ x_pc' = "checked")
            => reloads' = (IF LooksIncomplete THEN reloads + 1 ELSE reloads)]_vars
    /\ [][(x_pc = "checked" /\ x_pc' # "wrapper")
            => (reloads' = reloads /\ loads' = loads /\ settles' = settles)]_vars

\* a call returned a record after one reload that left the page incomplete
ReloadedOnce ==
    /\ x_pc = "returned"
    /\ src = "factsheet"
    /\ loads = 1
    /\ reloads = 1
    /\ settles = 2
    /\ LooksIncomplete
    /\ ~HasError(ret)


\* ========================================================================
\* The waits and the attempts of safe_request (SpecRequest)
\* ========================================================================
\* C14 - Exponential backoff: the n-th wait of a call lasts 2^(n-1) seconds
\* (1, 2, 4, ...); every wait follows a failed attempt and is followed by
\* another attempt, so a call that used up max_retries = N attempts has waited
\* exactly N - 1 times and has not waited after its last attempt.
ExponentialBackoff ==
    /\ \A n \in 1 .. Len(waits) : waits[n] = 2 ^ (n - 1)
    /\ \A n \in 1 .. Len(waits) : n < Len(outcomes) \/ rq_pc = "for"
    /\ \A n \in 1 .. Len(waits) : outcomes[n] # "ok" /\ n < max_retries
    /\ rq_pc = "for" => (Len(waits) = attempts /\ (attempts > 0 => attempt < max_retries))
    /\ (rq_pc \in {"except", "done"} /\ attempts >= 1) => Len(waits) = attempts - 1
    /\ (rq_pc = "done" /\ attempts = max_retries /\ max_retries >= 1)
        => Len(waits) = max_retries - 1

\* a call with max_retries = 4 has used up its attempts after waiting 1, 2, 4
BackoffReached ==
    /\ rq_pc = "done"
    /\ max_retries = 4
    /\ response = "None"
    /\ attempts = 4
    /\ waits = <<1, 2, 4>>

Succeeded == \E n \in 1 .. Len(outcomes) : outcomes[n] = "ok"

\* C16 - Attempts of safe_request: a call makes at most max_retries attempts
\* (none when max_retries <= 0), stops at the first attempt that succeeds and
\* returns its response without further attempt or wait, and returns None
\* exactly when no attempt succeeded.
AttemptsInvariant ==
    /\ attempts = Len(outcomes)
    /\ attempts <= (IF max_retries > 0 THEN max_retries ELSE 0)
    /\ \A n \in 1 .. Len(outcomes) - 1 : outcomes[n] # "ok"
    /\ Succeeded => /\ rq_pc = "done"
                    /\ response = "response"
                    /\ Len(waits) = attempts - 1
    /\ rq_pc = "done" => /\ response \in {"response", "None"}
                         /\ (response = "None") = ~Succeeded
    /\ (rq_pc = "done" /\ max_retries <= 0) => (attempts = 0 /\ response = "None")
    /\ rq_pc \in {"for", "except"} => response = "pending"

\* a call returned the response of its third attempt
SucceededOnRetry ==
    /\ rq_pc = "done"
    /\ response = "response"
    /\ max_retries = 4
    /\ outcomes = <<"timeout", "http_5xx", "ok">>
    /\ waits = <<1, 2>>


\* ========================================================================
\* The pauses of batch_scrape (Spec)
\* ========================================================================
\* C15 - Inter-symbol pacing: batch_scrape sleeps the inter-symbol delay once
\* between every two consecutive symbols, after a failed symbol as after a
\* successful one, and not after the last symbol: a finished batch of n >= 1
\* symbols has paused n - 1 times, the pauses coming on top of the delays of
\* the five rate limited extractors.
InterSymbolPacing ==
    /\ \A j \in 1 .. Len(pauses) : pauses[j] = BatchDelay
    /\ Len(pauses) = (IF b_i <= Len(symbols) THEN b_i - 1
                      ELSE IF Len(symbols) >= 1 THEN Len(symbols) - 1 ELSE 0)
    /\ (b_pc = "done" /\ Len(symbols) >= 1) => Len(pauses) = Len(symbols) - 1
    /\ b_pc = "sleep" => (b_i < Len(symbols) /\ symbols[b_i] \in DOMAIN results)
    /\ s_pc = "returned" => throttle = FactsheetDelay + 4 * ApiDelay

\* a batch of three symbols whose second symbol failed has paused twice
PacedAroundFailure ==
    /\ b_pc = "done"
    /\ symbols = SymbolOrder
    /\ failed_symbols = <<"S2">>
    /\ pauses = <<BatchDelay, BatchDelay>>


\* ========================================================================
\* Metadata of the statement files (SpecSource)
\* ========================================================================
Separators == {"_", ".", "-"}

\* name[i .. j] is a token: a longest run free of separators
IsToken(name, i, j) ==
    /\ i <= j
    /\ \A k \in i .. j : name[k] \notin Separators
    /\ i = 1 \/ name[i - 1] \in Separators
    /\ j = Len(name) \/ name[j + 1] \in Separators

Tokens(name) ==
    {SubSeq(name, p[1], p[2]) :
        p \in {q \in (1 .. Len(name)) \X (1 .. Len(name)) : IsToken(name, q[1], q[2])}}

\* a 4-digit token in 2000..2099
IsYearToken(t) ==
    Len(t) = 4 /\ t[1] = "2" /\ t[2] = "0" /\ t[3] \in Digit /\ t[4] \in Digit

PeriodMarkers ==
    {<<"q", "1">>, <<"q", "2">>, <<"q", "3">>, <<"q", "4">>, <<"y">>, <<"y", "e", "a", "r", "l", "y">>}

LanguageCodes == {<<"t", "h">>, <<"e", "n">>}

\* what the file name of an entry promises of the entry
MetadataOf(e) ==
    LET name  == lower(LastPart(e.url, "/"))
        years == {t \in Tokens(name) : IsYearToken(t)}
        marks == Tokens(name) \cap PeriodMarkers
        codes == {c \in LanguageCodes : Contains(name, c)}
    IN  /\ IF years = {} THEN e.year = None ELSE e.year \in years
        /\ IF marks = {} THEN e.period = <<"U", "N", "K", "N", "O", "W", "N">>
           ELSE e.period \in {upper(m) : m \in marks}
        /\ IF codes = {} THEN e.language = <<"u", "n", "k", "n", "o", "w", "n">>
           ELSE e.language \in codes
        /\ e.type = upper(LastPart(name, "."))

\* C12 - Filename metadata: every statement entry has the year token of its
\* file name (null when it has none), the quarter or yearly marker of the
\* name in upper case ("UNKNOWN" when it has none), a language code the name
\* contains ("unknown" when it contains none) and the upper-cased extension;
\* abc_2023_q2_en.pdf gives "2023", "Q2", "en", "PDF" and abc_yearly_th.xlsx
\* gives "Y" or "YEARLY" and "th".
FilenameMetadata ==
    (x_pc = "returned" /\ src = "financial_statements" /\ "links" \in DOMAIN content)
        => /\ ~HasError(ret)
           /\ \A j \in 1 .. Len(ret.financial_statements) :
                LET e == ret.financial_statements[j]
                IN  /\ MetadataOf(e)
                    /\ endswith(e.url, <<"/", "a", "b", "c", "_", "2", "0", "2", "3", "_", "q", "2", "_", "e", "n", ".", "p", "d", "f">>)
                        => /\ e.year = <<"2", "0", "2", "3">>
                           /\ e.period = <<"Q", "2">>
                           /\ e.language = <<"e", "n">>
                           /\ e.type = <<"P", "D", "F">>
                    /\ endswith(e.url, <<"/", "a", "b", "c", "_", "y", "e", "a", "r", "l", "y", "_", "t", "h", ".", "x", "l", "s", "x">>)
                        => /\ e.period \in {<<"Y">>, <<"Y", "E", "A", "R", "L", "Y">>}
                           /\ e.language = <<"t", "h">>

====
